---- MODULE Spec2Model ----
(***************************************************************************)
(* State-machine model of wordfence/util/caching.py: the Cache contract,   *)
(* its two backends (RuntimeCache, CacheDirectory) and Cacheable; and of   *)
(* the display registry of wordfence/cli/scan/progress.py.                 *)
(*                                                                         *)
(* Spec        one process calling the public operations one after another *)
(*             (each action is one whole call), with injected I/O errors.  *)
(* SpecTime    the same calls without I/O errors while the clock advances. *)
(* SpecFilters the same calls with filters registered at any time.         *)
(* SpecConc    several OS processes, each running one CacheDirectory put   *)
(*             or get on the same key, interleaved system call by system   *)
(*             call.                                                       *)
(* SpecCallers the same with processes that call Cacheable.get, the file   *)
(*             of the key starting absent, valid, cut short or disallowed. *)
(* SpecRace    every process calls Cacheable.get on an empty directory.    *)
(* SpecBase    the calls on an object of the base class Cache.             *)
(* SpecPath    CacheDirectory._get_path applied to keys.                   *)
(* SpecFaults  SpecConc with I/O errors in file.write and file.read.       *)
(* SpecLive    SpecConc with every process run weakly fairly.              *)
(* SpecPurge   one process running CacheDirectory.purge beside the puts    *)
(*             and gets of the others.                                     *)
(* SpecDir     construction of a CacheDirectory at a path that is free or  *)
(*             holds a directory of any mode, then puts, gets and purges.  *)
(* SpecProgress  ProgressDisplay objects constructed and ended, and        *)
(*             reset_terminal.                                             *)
(***************************************************************************)
EXTENDS Integers, Sequences, FiniteSets, TLC

\* ------------------------------------------------------------------ bounds
MaxTime == 2          \* the clock runs over 0..MaxTime
MaxFilters == 2       \* at most this many registered filters
MaxAgeArg == 1        \* max_age arguments run over None and 0..MaxAgeArg
NumProcs == 2         \* processes of the specifications with processes
MaxKeyLen == 2        \* keys of SpecPath have up to this many characters
MaxDisplays == 3      \* ProgressDisplay objects constructed in SpecProgress

\* --------------------------------------------------------------- constants
NoAge == -1           \* max_age is None

\* Exception classes (caching.py:13-22) and the OSError family of the
\* standard library that open/flock/stat/remove/read/write raise.
CacheExceptionKinds ==
    {"CacheException", "NoCachedValueException", "InvalidCachedValueException"}

IsCacheException(kind) == kind \in CacheExceptionKinds

IsOSError(kind) == kind \in {"OSError", "FileNotFoundError"}

\* ------------------------------------------------------------------ values
\* A Python value is a class name and a state.  "NoneType" and "int" are
\* primitives; "A" is an application class.
PyNone == [cls |-> "NoneType", state |-> 0]
Int1 == [cls |-> "int", state |-> 1]
ObjA == [cls |-> "A", state |-> 1]

\* the values callers store and initializers return
Values == {Int1, ObjA}

\* no value: an absent map entry, the value slot of an outcome that raised
NoValue == [cls |-> "NoValue", state |-> 0]

Returned(v) == [kind |-> "return", value |-> v]

Raised(kind) == [kind |-> kind, value |-> NoValue]

\* no directory entry under a name
NoFile == [exists |-> FALSE, data |-> <<>>, mtime |-> 0]

File(data, mtime) == [exists |-> TRUE, data |-> data, mtime |-> mtime]

\* CacheDirectory.allowed: None, or a set of class names
NoAllowList == [given |-> FALSE, classes |-> {}]

AllowList(cs) == [given |-> TRUE, classes |-> cs]

Primitive(v) == v.cls \in {"NoneType", "int"}

\* bytes: opcodes and payload bytes of the serialized form
OpNone == 78      \* 'N'
OpInt == 73       \* 'I'
OpGlobal == 99    \* 'c'
OpStop == 46      \* '.'

ClassByte(c) == IF c = "A" THEN 65 ELSE 66

ByteClass(b) == IF b = 65 THEN "A" ELSE IF b = 66 THEN "B" ELSE "?"

StateByte(n) == 48 + n

\* pickle.dumps: an opcode stream ending with STOP; a class instance names
\* its class (GLOBAL), a primitive does not.
pickle_dumps(v) ==
    IF v.cls = "NoneType" THEN <<OpNone, OpStop>>
    ELSE IF v.cls = "int" THEN <<OpInt, StateByte(v.state), OpStop>>
    ELSE <<OpGlobal, ClassByte(v.cls), StateByte(v.state), OpStop>>

\* The classes a cache may reconstruct: the allow-list, or none when no
\* allow-list was given (primitives are always reconstructable).
AllowedClasses(allow) == IF allow.given THEN allow.classes ELSE {}

\* limited_deserialize(data, allowed): runs the opcode stream up to the first
\* STOP (bytes after it are never read); a malformed stream or a class outside
\* the allow-list raises InvalidCachedValueException.
limited_deserialize(data, allow) ==
    IF Len(data) >= 2 /\ data[1] = OpNone /\ data[2] = OpStop
        THEN Returned(PyNone)
    ELSE IF Len(data) >= 3 /\ data[1] = OpInt /\ data[3] = OpStop
                /\ data[2] >= 48 /\ data[2] <= 57
        THEN Returned([cls |-> "int", state |-> data[2] - 48])
    ELSE IF Len(data) >= 4 /\ data[1] = OpGlobal /\ data[4] = OpStop
                /\ data[3] >= 48 /\ data[3] <= 57
                /\ ByteClass(data[2]) \in AllowedClasses(allow)
        THEN Returned([cls |-> ByteClass(data[2]), state |-> data[3] - 48])
    ELSE Raised("InvalidCachedValueException")

\* ----------------------------------------------------------------- filters
\* Two read-side transforms that do not commute: FBox turns the int into an
\* A instance, FUnbox turns an A instance into the int.
FilterIds == {"FBox", "FUnbox"}

ApplyFilter(f, v) ==
    IF f = "FBox" THEN (IF v = Int1 THEN ObjA ELSE v)
    ELSE (IF v = ObjA THEN Int1 ELSE v)

RECURSIVE FilterFrom(_, _, _)
FilterFrom(fs, i, v) ==
    IF i > Len(fs) THEN v ELSE FilterFrom(fs, i + 1, ApplyFilter(fs[i], v))

\* mutant of filter_value: the filters applied last-registered first
RECURSIVE FilterBack(_, _, _)
FilterBack(fs, i, v) ==
    IF i < 1 THEN v ELSE FilterBack(fs, i - 1, ApplyFilter(fs[i], v))

filter_value_reversed(fs, v) == FilterBack(fs, Len(fs), v)

\* Cache.filter_value: every filter, in registration order
filter_value(fs, v) == FilterFrom(fs, 1, v)

\* ------------------------------------------------------------ key to path
Hex(d) == IF d < 10 THEN 48 + d ELSE 55 + d

\* str.encode('utf-8') of a sequence of code points below 0x800
RECURSIVE utf8_encode(_)
utf8_encode(key) ==
    IF key = <<>> THEN <<>>
    ELSE LET c == Head(key)
         IN  (IF c < 128 THEN <<c>>
              ELSE <<192 + (c \div 64), 128 + (c % 64)>>)
             \o utf8_encode(Tail(key))

\* base64.b16encode: two upper-case hex digits per byte
RECURSIVE b16encode(_)
b16encode(bytes) ==
    IF bytes = <<>> THEN <<>>
    ELSE <<Hex(Head(bytes) \div 16), Hex(Head(bytes) % 16)>>
         \o b16encode(Tail(bytes))

\* CacheDirectory._get_path: the file name under the cache directory
get_path(key) == b16encode(utf8_encode(key))

\* self.path of the cache directory: "c"
CachePath == <<99>>

\* os.path.join(dir, name) for a relative name: a separator is put between
\* the two, also when name is empty
os_path_join(dir, name) == dir \o <<47>> \o name

\* the keys the state machine uses: "/" and ".."
CacheKeys == {<<47>>, <<46, 46>>}

Names == {get_path(k) : k \in CacheKeys}

\* _get_path of each key of the state machine
PathOf == [k \in CacheKeys |-> get_path(k)]

\* ------------------------------------------------------ directory mode
\* permission bits as integers: 0o700, 0o755, 0o777
OwnerOnly == 448

DirModes == {448, 493, 511}

\* the umask of the process: 0o022, 0o077
Umasks == {18, 63}

\* the bits of a that are not in b
RECURSIVE BitAndNot(_, _)
BitAndNot(a, b) ==
    IF a = 0 THEN 0
    ELSE (IF a % 2 = 1 /\ b % 2 = 0 THEN 1 ELSE 0)
         + 2 * BitAndNot(a \div 2, b \div 2)

\* os.makedirs(path, mode=mode, exist_ok=True), line 90: the mode the
\* directory has afterwards.  A new directory gets mode & ~umask; one that
\* exists is left as it is.
makedirs(exists, current, mode, umask) ==
    IF exists THEN current ELSE BitAndNot(mode, umask)

\* ------------------------------------------------------------- staleness
MaxAges == {NoAge} \cup (0..MaxAgeArg)

\* mutant of is_valid: the test for max_age is None left out
is_valid_unguarded(mtime, current, max_age) == current - mtime < max_age

\* mutant of is_valid: the operands of the subtraction swapped
is_valid_swapped(mtime, current, max_age) ==
    IF max_age = NoAge THEN TRUE ELSE mtime - current < max_age

\* CacheDirectory._is_valid, given the file's mtime and the current time
is_valid(mtime, current, max_age) ==
    IF max_age = NoAge THEN TRUE ELSE current - mtime < max_age


\* ------------------------------------------------------------------- state
VARIABLES
    backend,      \* which Cache subclass the cache object is
    allowed,      \* CacheDirectory.allowed
    filters,      \* Cache.filters, in registration order
    items,        \* RuntimeCache.items: key -> value (NoValue: no entry)
    dir_exists,   \* the cache directory exists on disk
    dir_mode,     \* its permission bits (0 while it does not exist)
    files,        \* directory content: name -> File(data, mtime) or NoFile
    now,          \* time.time()
    everPut,      \* history: put(K, .) was called since creation/last purge
    last,         \* history: the call that just finished
    \* SpecConc: processes sharing one entry of a cache directory
    job,          \* per process: the operation it runs, with its arguments
    pc,           \* per process: the statement it is at
    dirent,       \* the inode the entry's path names (0: no such file)
    inode,        \* inode -> File(data, mtime), or NoFile while unallocated
    fd,           \* per process: the inode its open file refers to (0: none)
    hold,         \* per process: the flock it holds on fd: "none", "SH", "EX"
    buf,          \* per process: bytes written but still in the file buffer
    raw,          \* per process: the bytes file.read() returned
    out,          \* per process: how the operation ended, and whether it logged
    \* SpecProgress: the registry of progress displays
    displays,     \* the module list _displays
    made,         \* the ProgressDisplay objects constructed so far
    ended,        \* per display: how often its end() has run
    reset         \* history: the last call of reset_terminal

seqvars ==
    <<backend, allowed, filters, items, dir_exists, dir_mode, files, everPut, last>>

concvars == <<job, pc, dirent, inode, fd, hold, buf, raw, out>>

Displays == 1..MaxDisplays

\* the record of no call of reset_terminal
NoReset ==
    [done |-> FALSE, before |-> <<>>, after |-> <<>>,
     calls |-> [d \in Displays |-> 0]]

\* _displays = [] (line 22) and no display constructed
NoDisplays ==
    /\ displays = <<>>
    /\ made = {}
    /\ ended = [d \in Displays |-> 0]
    /\ reset = NoReset

\* the module state of cli/scan/progress.py
progvars == <<displays, made, ended, reset>>

vars == <<seqvars, now, concvars, progvars>>

\* ----------------------------------------------------------- RuntimeCache
\* RuntimeCache._save
RtSave(its, key, value) == [its EXCEPT ![key] = value]

\* mutant of RtLoad: a missing key yields None, as dict.get would
RtLoadDefault(its, key, max_age) ==
    IF its[key] # NoValue THEN Returned(its[key]) ELSE Returned(PyNone)

\* RuntimeCache._load (max_age is ignored)
RtLoad(its, key, max_age) ==
    IF its[key] # NoValue THEN Returned(its[key])
    ELSE Raised("NoCachedValueException")

\* RuntimeCache.purge
RtPurge == [k \in CacheKeys |-> NoValue]

\* --------------------------------------------------------- CacheDirectory
\* The system call of an operation that raises OSError, if any.
PutFails == {"none", "open", "lock", "write"}
GetFails == {"none", "open", "lock", "stat", "remove", "read"}
PurgeFails == {"none", "rmtree", "makedirs"}

\* Cacheable.get: at most one injected failure per call, in its get (the
\* read) or in its put
CacheableFails ==
    {<<"none", "none">>, <<"read", "none">>} \cup {<<"none", p>> : p \in PutFails}

\* mutant of DirSave: the file opened in mode 'ab', old bytes kept
DirSaveAppend(fs, path, data, fail) ==
    IF ~dir_exists
        THEN [files |-> fs, res |-> Raised("FileNotFoundError")]
    ELSE IF fail = "open"
        THEN [files |-> fs, res |-> Raised("OSError")]
    ELSE IF fail \in {"lock", "write"}
        THEN [files |-> [fs EXCEPT ![path] = File(@.data, now)],
              res |-> Raised("OSError")]
    ELSE [files |-> [fs EXCEPT ![path] = File(@.data \o data, now)],
          res |-> Returned(PyNone)]

\* CacheDirectory._save as one call: open(path, 'wb') creates or truncates the
\* file, then the exclusive lock is taken, then the bytes are written.
DirSave(fs, path, data, fail) ==
    IF ~dir_exists
        THEN [files |-> fs, res |-> Raised("FileNotFoundError")]
    ELSE IF fail = "open"
        THEN [files |-> fs, res |-> Raised("OSError")]
    ELSE IF fail \in {"lock", "write"}
        THEN [files |-> [fs EXCEPT ![path] = File(<<>>, now)],
              res |-> Raised("OSError")]
    ELSE [files |-> [fs EXCEPT ![path] = File(data, now)],
          res |-> Returned(PyNone)]

\* mutant of LoadExcept: the warning is logged for every OSError
LoadExceptLogAll(fs, kind, failed) ==
    [files |-> fs, res |-> Raised("NoCachedValueException"),
     logged |-> TRUE, failed |-> failed]

\* mutant of LoadExcept: only FileNotFoundError is caught
LoadExceptNarrow(fs, kind, failed) ==
    [files |-> fs,
     res |-> IF kind = "FileNotFoundError" THEN Raised("NoCachedValueException")
             ELSE Raised(kind),
     logged |-> FALSE, failed |-> failed]

\* The except clause of CacheDirectory._load: every OSError becomes
\* NoCachedValueException, logged unless it is FileNotFoundError.
LoadExcept(fs, kind, failed) ==
    [files |-> fs, res |-> Raised("NoCachedValueException"),
     logged |-> (kind # "FileNotFoundError"), failed |-> failed]

\* CacheDirectory._load as one call.
DirLoad(fs, path, max_age, fail) ==
    IF ~dir_exists \/ ~fs[path].exists
        THEN LoadExcept(fs, "FileNotFoundError", "missing")
    ELSE IF fail \in {"open", "lock"}
        THEN LoadExcept(fs, "OSError", fail)
    ELSE IF max_age # NoAge /\ fail = "stat"
        THEN LoadExcept(fs, "OSError", fail)
    ELSE IF ~is_valid(fs[path].mtime, now, max_age)
        THEN IF fail = "remove"
             THEN LoadExcept(fs, "OSError", fail)
             ELSE [files |-> [fs EXCEPT ![path] = NoFile],
                   res |-> Raised("NoCachedValueException"),
                   logged |-> FALSE, failed |-> "none"]
    ELSE IF fail = "read"
        THEN LoadExcept(fs, "OSError", fail)
    ELSE [files |-> fs, res |-> Returned(fs[path].data),
          logged |-> FALSE, failed |-> "none"]

\* ------------------------------------------------------------------ Cache
\* The store of the cache object, whichever backend it has.
Store == [items |-> items, files |-> files]

\* Cache._serialize_value / CacheDirectory._serialize_value
serialize_value(v) == IF backend = "RuntimeCache" THEN v ELSE pickle_dumps(v)

\* Cache._deserialize_value / CacheDirectory._deserialize_value
deserialize_value(stored) ==
    IF backend = "RuntimeCache" THEN Returned(stored)
    ELSE limited_deserialize(stored, allowed)

\* Cache.put: _save(key, _serialize_value(value))
CachePut(st, key, value, fail) ==
    IF backend = "Cache"
    THEN [store |-> st, res |-> Raised("NotImplementedError")]
    ELSE IF backend = "RuntimeCache"
    THEN [store |-> [st EXCEPT !.items = RtSave(st.items, key, serialize_value(value))],
          res |-> Returned(PyNone)]
    ELSE LET o == DirSave(st.files, PathOf[key], serialize_value(value), fail)
         IN  [store |-> [st EXCEPT !.files = o.files], res |-> o.res]

\* Cache.get: filter_value(_deserialize_value(_load(key, max_age)))
CacheGet(st, key, max_age, fail) ==
    LET ld == IF backend = "Cache"
              THEN [files |-> st.files, res |-> Raised("NotImplementedError"),
                    logged |-> FALSE, failed |-> "none"]
              ELSE IF backend = "RuntimeCache"
              THEN [files |-> st.files, res |-> RtLoad(st.items, key, max_age),
                    logged |-> FALSE, failed |-> "none"]
              ELSE DirLoad(st.files, PathOf[key], max_age, fail)
        de == IF ld.res.kind = "return" THEN deserialize_value(ld.res.value)
              ELSE ld.res
    IN  [store |-> [st EXCEPT !.files = ld.files],
         res |-> IF de.kind = "return"
                 THEN Returned(filter_value(filters, de.value)) ELSE de,
         logged |-> ld.logged, failed |-> ld.failed]

\* mutant of CacheableGetCall: the except clause catches every exception
CacheableGetCatchAll(st, key, fresh, max_age, gfail, pfail) ==
    LET g == CacheGet(st, key, max_age, gfail)
    IN  IF g.res.kind # "return"
        THEN LET p == CachePut(g.store, key, fresh, pfail)
             IN  [store |-> p.store,
                  res |-> IF p.res.kind = "return" THEN Returned(fresh) ELSE p.res,
                  logged |-> g.logged, failed |-> g.failed, inits |-> 1,
                  putcalled |-> TRUE]
        ELSE [store |-> g.store, res |-> g.res, logged |-> g.logged,
              failed |-> g.failed, inits |-> 0, putcalled |-> FALSE]

\* mutant of CacheableGetCall: the computed value is returned, never stored
CacheableGetNoPut(st, key, fresh, max_age, gfail, pfail) ==
    LET g == CacheGet(st, key, max_age, gfail)
    IN  IF g.res.kind \in {"NoCachedValueException", "InvalidCachedValueException"}
        THEN [store |-> g.store, res |-> Returned(fresh), logged |-> g.logged,
              failed |-> g.failed, inits |-> 1, putcalled |-> FALSE]
        ELSE [store |-> g.store, res |-> g.res, logged |-> g.logged,
              failed |-> g.failed, inits |-> 0, putcalled |-> FALSE]

\* mutant of CacheableGetCall: the except clause names only
\* NoCachedValueException
CacheableGetMissOnly(st, key, fresh, max_age, gfail, pfail) ==
    LET g == CacheGet(st, key, max_age, gfail)
    IN  IF g.res.kind = "NoCachedValueException"
        THEN LET p == CachePut(g.store, key, fresh, pfail)
             IN  [store |-> p.store,
                  res |-> IF p.res.kind = "return" THEN Returned(fresh) ELSE p.res,
                  logged |-> g.logged, failed |-> g.failed, inits |-> 1,
                  putcalled |-> TRUE]
        ELSE [store |-> g.store, res |-> g.res, logged |-> g.logged,
              failed |-> g.failed, inits |-> 0, putcalled |-> FALSE]

\* Cacheable.get(cache) for Cacheable(key, initializer, max_age), where the
\* initializer returns fresh.  inits counts the initializer's invocations.
CacheableGetCall(st, key, fresh, max_age, gfail, pfail) ==
    LET g == CacheGet(st, key, max_age, gfail)
    IN  IF g.res.kind \in {"NoCachedValueException", "InvalidCachedValueException"}
        THEN LET p == CachePut(g.store, key, fresh, pfail)
             IN  [store |-> p.store,
                  res |-> IF p.res.kind = "return" THEN Returned(fresh) ELSE p.res,
                  logged |-> g.logged, failed |-> g.failed, inits |-> 1,
                  putcalled |-> TRUE]
        ELSE [store |-> g.store, res |-> g.res, logged |-> g.logged,
              failed |-> g.failed, inits |-> 0, putcalled |-> FALSE]

\* ---------------------------------------------------------------- history
\* an entry for key is in the store
HasEntry(st, key) ==
    IF backend = "RuntimeCache" THEN st.items[key] # NoValue
    ELSE dir_exists /\ st.files[PathOf[key]].exists

\* the record of no call: the cache object was just created
NoCall ==
    [op |-> "new", key |-> <<>>, arg |-> NoValue, max_age |-> NoAge,
     time |-> 0, res |-> Returned(PyNone), logged |-> FALSE,
     failed |-> "none", inits |-> 0, had |-> FALSE, known |-> FALSE,
     afterOp |-> "none", after |-> NoValue, age |-> 0]

\* The preceding call stored a value under key and returned normally: it
\* was put(key, v), or a Cacheable.get for key that ran its initializer.
Stored(key) ==
    /\ last.key = key
    /\ last.res.kind = "return"
    /\ last.op = "put" \/ (last.op = "cacheable" /\ last.inits = 1)

\* The record of a finished call.
\*   arg     the value put, or the value the initializer returned
\*   time    of a call that stored a value in a directory: when it ran
\*   failed  the step that raised ("none": no step did)
\*   inits   how often the initializer ran
\* and for get and Cacheable.get
\*   had     an entry for the key was in the store before the call
\*   known   put had been called for the key since creation or the last purge
\*   afterOp the call right before, if it stored a value under the same key
\*   after   the value it stored
\*   age     the time since it stored the value
Call(op, key, arg, max_age, res, logged, failed, inits) ==
    LET reads == op \in {"get", "cacheable"}
        follows == reads /\ Stored(key)
        stores == res.kind = "return" /\ (op = "put" \/ inits = 1)
    IN  [op |-> op, key |-> key, arg |-> arg, max_age |-> max_age,
         time |-> IF stores /\ backend = "CacheDirectory" THEN now ELSE 0,
         res |-> res, logged |-> logged, failed |-> failed, inits |-> inits,
         had |-> reads /\ HasEntry(Store, key),
         known |-> reads /\ everPut[key],
         afterOp |-> IF follows THEN last.op ELSE "none",
         after |-> IF follows THEN last.arg ELSE NoValue,
         age |-> IF follows THEN now - last.time ELSE 0]

\* ---------------------------------------------------------------- actions
\* An injected failure is one of a system call the operation really makes.
Put(key, value, fail) ==
    LET o == CachePut(Store, key, value, fail)
    IN  /\ fail # "none" => o.res.kind = "OSError"
        /\ items' = o.store.items
        /\ files' = o.store.files
        /\ last' = Call("put", key, value, NoAge, o.res, FALSE,
                        IF o.res.kind = "return" THEN "none"
                        ELSE IF backend = "Cache" THEN "unimplemented"
                        ELSE IF fail = "none" THEN "nodir" ELSE fail, 0)
        /\ everPut' = [everPut EXCEPT ![key] = TRUE]
        /\ UNCHANGED <<backend, allowed, filters, dir_exists, dir_mode, now, concvars, progvars>>

Get(key, max_age, fail) ==
    LET o == CacheGet(Store, key, max_age, fail)
    IN  /\ fail # "none" => o.failed = fail
        /\ items' = o.store.items
        /\ files' = o.store.files
        /\ last' = Call("get", key, NoValue, max_age, o.res, o.logged,
                        o.failed, 0)
        /\ UNCHANGED <<backend, allowed, filters, dir_exists, dir_mode, now, everPut, concvars, progvars>>

CacheableGet(key, fresh, max_age, gfail, pfail) ==
    LET o == CacheableGetCall(Store, key, fresh, max_age, gfail, pfail)
    IN  /\ gfail # "none" => o.failed = gfail
        /\ pfail # "none" => o.putcalled /\ o.res.kind = "OSError"
        /\ items' = o.store.items
        /\ files' = o.store.files
        /\ last' = Call("cacheable", key,
                        IF o.inits = 0 THEN NoValue ELSE fresh, max_age,
                        o.res, o.logged,
                        IF o.putcalled /\ o.res.kind # "return" THEN "put"
                        ELSE o.failed, o.inits)
        /\ everPut' = IF o.putcalled THEN [everPut EXCEPT ![key] = TRUE]
                      ELSE everPut
        /\ UNCHANGED <<backend, allowed, filters, dir_exists, dir_mode, now, concvars, progvars>>

\* Cache.add_filter
AddFilter(f) ==
    /\ Len(filters) < MaxFilters
    /\ filters' = Append(filters, f)
    /\ UNCHANGED <<backend, allowed, items, dir_exists, dir_mode, files, now, everPut, last,
                   concvars, progvars>>

\* RuntimeCache.purge / CacheDirectory.purge (rmtree, then makedirs)
\* had: some entry was in the store before the purge
Purged(res, failed) ==
    [Call("purge", <<>>, NoValue, NoAge, res, FALSE, failed, 0)
        EXCEPT !.had = \E k \in CacheKeys : HasEntry(Store, k)]

\* mutant of Purge: Cache.purge of the base class (pass), nothing is removed
PurgeKeep(fail) ==
    /\ fail = "none"
    /\ last' = Purged(Returned(PyNone), "none")
    /\ UNCHANGED <<backend, allowed, filters, items, dir_exists, dir_mode, files, now,
                   everPut, concvars, progvars>>

Purge(fail) ==
    /\ IF backend = "RuntimeCache"
       THEN /\ fail = "none"
            /\ items' = RtPurge
            /\ everPut' = [k \in CacheKeys |-> FALSE]
            /\ last' = Purged(Returned(PyNone), "none")
            /\ UNCHANGED <<files, dir_exists, dir_mode>>
       ELSE IF ~dir_exists \/ fail = "rmtree"
       THEN /\ fail # "makedirs"
            /\ last' = Purged(Raised("CacheException"),
                              IF fail = "none" THEN "nodir" ELSE fail)
            /\ UNCHANGED <<items, files, dir_exists, dir_mode, everPut>>
       ELSE /\ files' = [n \in Names |-> NoFile]
            /\ everPut' = [k \in CacheKeys |-> FALSE]
            /\ dir_exists' = (fail # "makedirs")
            /\ \E umask \in Umasks :
                  dir_mode' = IF fail = "makedirs" THEN 0
                              ELSE makedirs(FALSE, 0, OwnerOnly, umask)
            /\ last' = Purged(IF fail = "makedirs" THEN Raised("CacheException")
                              ELSE Returned(PyNone), fail)
            /\ UNCHANGED items
    /\ UNCHANGED <<backend, allowed, filters, now, concvars, progvars>>

\* the clock advances
Tick ==
    /\ now < MaxTime
    /\ now' = now + 1
    /\ UNCHANGED <<seqvars, progvars, concvars>>

\* ------------------------------------------------- concurrent processes
\* Each process runs one CacheDirectory operation on the same key of the same
\* directory; a step is one system call.  Locks are flock locks: they belong
\* to the open file and exclude each other per inode.
Procs == 1..NumProcs

Inodes == 1..(NumProcs + 1)

Jobs ==
    [op : {"put"}, value : Values, max_age : {NoAge}]
    \cup [op : {"get"}, value : {NoValue}, max_age : MaxAges]

\* the Cacheable.get calls processes make: Cacheable(key, initializer
\* returning value, max_age).get(cache)
CacheableJobs == [op : {"cacheable"}, value : Values, max_age : MaxAges]

\* how an operation of a process ended: kind is "running" until then
\* inits counts the runs of the initializer of a Cacheable.get
Running == [kind |-> "running", value |-> NoValue, logged |-> FALSE, inits |-> 0]

Ended(res, logged) ==
    [kind |-> res.kind, value |-> res.value, logged |-> logged, inits |-> 0]

\* a write of data at offset 0 of a file holding old
WriteAt0(old, data) ==
    IF Len(data) >= Len(old) THEN data
    ELSE data \o SubSeq(old, Len(data) + 1, Len(old))

\* flock(fd, LOCK_EX) may return: no other open file holds a lock on the inode
CanLockEx(p) ==
    \A q \in Procs \ {p} : hold[q] # "none" => fd[q] # fd[p]

\* flock(fd, LOCK_SH) may return: no other open file holds it exclusively
CanLockSh(p) ==
    \A q \in Procs \ {p} : hold[q] = "EX" => fd[q] # fd[p]

\* the lowest unallocated inode
FreeInode == CHOOSE i \in Inodes : ~inode[i].exists /\ \A j \in 1..(i - 1) : inode[j].exists

\* The statements of _save as a Cacheable.get reaches them (line 170), after
\* the statements of _load (line 164) under the same names as a plain get.
SavePc ==
    [open |-> "save_open", lock |-> "save_lock", write |-> "save_write",
     unlock |-> "save_unlock", close |-> "save_close"]

\* process p is at statement step of _save
AtSave(p, step) ==
    IF job[p].op = "cacheable" THEN pc[p] = SavePc[step]
    ELSE job[p].op = "put" /\ pc[p] = step

SaveStep(p, step) == IF job[p].op = "cacheable" THEN SavePc[step] ELSE step

\* process p is at statement step of _load
AtLoad(p, step) == job[p].op \in {"get", "cacheable"} /\ pc[p] = step

\* _save, line 110: open(path, 'wb') creates the file or truncates it; it
\* raises FileNotFoundError when the cache directory does not exist
SaveOpen(p) ==
    /\ AtSave(p, "open")
    /\ IF ~dir_exists
       THEN /\ pc' = [pc EXCEPT ![p] = "done"]
            /\ out' = [out EXCEPT ![p] =
                        [Ended(Raised("FileNotFoundError"), FALSE)
                            EXCEPT !.inits = out[p].inits]]
            /\ UNCHANGED <<dirent, inode, fd>>
       ELSE /\ IF dirent = 0
               THEN /\ dirent' = FreeInode
                    /\ inode' = [inode EXCEPT ![FreeInode] = File(<<>>, now)]
                    /\ fd' = [fd EXCEPT ![p] = FreeInode]
               ELSE /\ inode' = [inode EXCEPT ![dirent] = File(<<>>, now)]
                    /\ fd' = [fd EXCEPT ![p] = dirent]
                    /\ UNCHANGED dirent
            /\ pc' = [pc EXCEPT ![p] = SaveStep(p, "lock")]
            /\ UNCHANGED out
    /\ UNCHANGED <<seqvars, progvars, now, job, hold, buf, raw>>

\* _save, line 111: FileLock(file, LockType.EXCLUSIVE) is entered
SaveLock(p) ==
    /\ AtSave(p, "lock")
    /\ CanLockEx(p)
    /\ hold' = [hold EXCEPT ![p] = "EX"]
    /\ pc' = [pc EXCEPT ![p] = SaveStep(p, "write")]
    /\ UNCHANGED <<seqvars, progvars, now, job, dirent, inode, fd, buf, raw, out>>

\* _save, line 112: file.write(value) on the buffered file: bytes longer than
\* the buffer go to the file at once (through), shorter ones stay buffered
SaveWrite(p, through) ==
    /\ AtSave(p, "write")
    /\ IF through
       THEN /\ inode' = [inode EXCEPT ![fd[p]] =
                            File(WriteAt0(@.data, pickle_dumps(job[p].value)), now)]
            /\ UNCHANGED buf
       ELSE /\ buf' = [buf EXCEPT ![p] = pickle_dumps(job[p].value)]
            /\ UNCHANGED inode
    /\ pc' = [pc EXCEPT ![p] = SaveStep(p, "unlock")]
    /\ UNCHANGED <<seqvars, progvars, now, job, dirent, fd, hold, raw, out>>

\* mutant of SaveUnlock: the write is left without releasing the lock
SaveUnlockKeeps(p) ==
    /\ AtSave(p, "unlock")
    /\ pc' = [pc EXCEPT ![p] = SaveStep(p, "close")]
    /\ UNCHANGED <<seqvars, progvars, now, job, dirent, inode, fd, hold, buf, raw, out>>

\* _save, line 111: the FileLock block is left, the lock released
SaveUnlock(p) ==
    /\ AtSave(p, "unlock")
    /\ hold' = [hold EXCEPT ![p] = "none"]
    /\ pc' = [pc EXCEPT ![p] = SaveStep(p, "close")]
    /\ UNCHANGED <<seqvars, progvars, now, job, dirent, inode, fd, buf, raw, out>>

\* _save, line 110: the open block is left: the buffer is flushed to the file
\* and the file closed; put returns None, Cacheable.get the value it computed
\* (line 171)
SaveClose(p) ==
    /\ AtSave(p, "close")
    /\ IF buf[p] # <<>>
       THEN inode' = [inode EXCEPT ![fd[p]] = File(WriteAt0(@.data, buf[p]), now)]
       ELSE UNCHANGED inode
    /\ buf' = [buf EXCEPT ![p] = <<>>]
    /\ fd' = [fd EXCEPT ![p] = 0]
    /\ pc' = [pc EXCEPT ![p] = "done"]
    /\ out' = [out EXCEPT ![p] =
                IF job[p].op = "cacheable"
                THEN [Ended(Returned(job[p].value), FALSE)
                         EXCEPT !.inits = out[p].inits]
                ELSE Ended(Returned(PyNone), FALSE)]
    /\ UNCHANGED <<seqvars, progvars, now, job, dirent, hold, raw>>

\* mutant of LoadFailed: Cacheable.get returns the value it computed without
\* calling cache.put
LoadFailedNoPut(p, kind) ==
    /\ pc' = [pc EXCEPT ![p] = "done"]
    /\ out' = [out EXCEPT ![p] =
                IF job[p].op = "cacheable"
                THEN [Ended(Returned(job[p].value), FALSE) EXCEPT !.inits = 1]
                ELSE Ended(Raised(kind), FALSE)]

\* mutant of LoadFailed: Cacheable.get without its except clause
LoadFailedEscapes(p, kind) ==
    /\ pc' = [pc EXCEPT ![p] = "done"]
    /\ out' = [out EXCEPT ![p] = Ended(Raised(kind), FALSE)]

\* cache.get of process p raised NoCachedValueException or
\* InvalidCachedValueException: get raises it to its caller; Cacheable.get
\* (lines 165-170) runs the initializer and goes on to cache.put
LoadFailed(p, kind) ==
    IF job[p].op = "cacheable"
    THEN /\ pc' = [pc EXCEPT ![p] = SavePc["open"]]
         /\ out' = [out EXCEPT ![p].inits = @ + 1]
    ELSE /\ pc' = [pc EXCEPT ![p] = "done"]
         /\ out' = [out EXCEPT ![p] = Ended(Raised(kind), FALSE)]

\* _load leaves through its except clause (lines 131-137) with the
\* FileNotFoundError of open, getmtime or os.remove
LoadMissing(p) ==
    LET e == LoadExcept(files, "FileNotFoundError", "missing")
    IN  /\ hold' = [hold EXCEPT ![p] = "none"]
        /\ fd' = [fd EXCEPT ![p] = 0]
        /\ IF job[p].op = "cacheable" THEN LoadFailed(p, e.res.kind)
           ELSE /\ pc' = [pc EXCEPT ![p] = "done"]
                /\ out' = [out EXCEPT ![p] = Ended(e.res, e.logged)]

\* _load, line 124: open(path, 'rb')
LoadOpen(p) ==
    /\ AtLoad(p, "open")
    /\ IF dirent = 0
       THEN LoadMissing(p)
       ELSE /\ fd' = [fd EXCEPT ![p] = dirent]
            /\ pc' = [pc EXCEPT ![p] = "lock"]
            /\ UNCHANGED <<hold, out>>
    /\ UNCHANGED <<seqvars, progvars, now, job, dirent, inode, buf, raw>>

\* _load, line 125: FileLock(file, LockType.SHARED) is entered
LoadLock(p) ==
    /\ AtLoad(p, "lock")
    /\ CanLockSh(p)
    /\ hold' = [hold EXCEPT ![p] = "SH"]
    /\ pc' = [pc EXCEPT ![p] = "valid"]
    /\ UNCHANGED <<seqvars, progvars, now, job, dirent, inode, fd, buf, raw, out>>

\* _load, line 126: _is_valid(path, max_age) stats the path, not the open file
LoadValid(p) ==
    /\ AtLoad(p, "valid")
    /\ IF job[p].max_age = NoAge
       THEN /\ pc' = [pc EXCEPT ![p] = "read"]
            /\ UNCHANGED <<hold, fd, out>>
       ELSE IF dirent = 0
       THEN LoadMissing(p)
       ELSE /\ pc' = [pc EXCEPT ![p] =
                        IF is_valid(inode[dirent].mtime, now, job[p].max_age)
                        THEN "read" ELSE "remove"]
            /\ UNCHANGED <<hold, fd, out>>
    /\ UNCHANGED <<seqvars, progvars, now, job, dirent, inode, buf, raw>>

\* _load, lines 127-128: os.remove(path), then NoCachedValueException leaves
\* both blocks (unlock, close); os.remove of a path that is gone raises
\* FileNotFoundError
LoadRemove(p) ==
    /\ AtLoad(p, "remove")
    /\ IF dirent = 0
       THEN LoadMissing(p)
       ELSE /\ hold' = [hold EXCEPT ![p] = "none"]
            /\ fd' = [fd EXCEPT ![p] = 0]
            /\ LoadFailed(p, "NoCachedValueException")
    /\ dirent' = 0
    /\ UNCHANGED <<seqvars, progvars, now, job, inode, buf, raw>>

\* _load, line 129: file.read() of the open file
LoadRead(p) ==
    /\ AtLoad(p, "read")
    /\ raw' = [raw EXCEPT ![p] = <<inode[fd[p]].data>>]
    /\ pc' = [pc EXCEPT ![p] = "unlock"]
    /\ UNCHANGED <<seqvars, progvars, now, job, dirent, inode, fd, hold, buf, out>>

\* mutant of LoadReturn: the bytes are returned with the lock still held
LoadReturnKeeps(p) ==
    /\ AtLoad(p, "unlock")
    /\ pc' = [pc EXCEPT ![p] = "done"]
    /\ out' = [out EXCEPT ![p] = Ended(Returned(PyNone), FALSE)]
    /\ UNCHANGED <<seqvars, progvars, now, job, dirent, inode, fd, hold, buf, raw>>

\* _load, lines 125, 124 and 130: both blocks are left and the bytes returned;
\* Cache.get deserializes and filters them
LoadReturn(p) ==
    /\ AtLoad(p, "unlock")
    /\ hold' = [hold EXCEPT ![p] = "none"]
    /\ fd' = [fd EXCEPT ![p] = 0]
    /\ LET de == limited_deserialize(raw[p][1], allowed)
       IN  IF de.kind = "return"
           THEN /\ pc' = [pc EXCEPT ![p] = "done"]
                /\ out' = [out EXCEPT ![p] =
                            [Ended(Returned(filter_value(filters, de.value)), FALSE)
                                EXCEPT !.inits = out[p].inits]]
           ELSE LoadFailed(p, de.kind)
    /\ UNCHANGED <<seqvars, progvars, now, job, dirent, inode, buf, raw>>

\* the clock advances while processes run
TickConc ==
    /\ now < MaxTime
    /\ \E p \in Procs : pc[p] # "done"
    /\ now' = now + 1
    /\ UNCHANGED <<seqvars, progvars, concvars>>

\* The directory holds no entry for the key, or one that an earlier put
\* stored at time 0; every process is about to start its operation.
InitConc ==
    /\ backend = "CacheDirectory"
    /\ allowed = AllowList({"A"})
    /\ filters = <<>>
    /\ items = RtPurge
    /\ dir_exists = TRUE
    /\ dir_mode = OwnerOnly
    /\ files = [n \in Names |-> NoFile]
    /\ everPut = [k \in CacheKeys |-> FALSE]
    /\ last = NoCall
    /\ now = 0
    /\ job \in [Procs -> Jobs]
    /\ pc = [p \in Procs |-> "open"]
    /\ fd = [p \in Procs |-> 0]
    /\ hold = [p \in Procs |-> "none"]
    /\ buf = [p \in Procs |-> <<>>]
    /\ raw = [p \in Procs |-> <<>>]
    /\ out = [p \in Procs |-> Running]
    /\ NoDisplays
    /\ \E v \in Values \cup {NoValue} :
          /\ dirent = IF v = NoValue THEN 0 ELSE 1
          /\ inode = [i \in Inodes |->
                        IF i = 1 /\ v # NoValue THEN File(pickle_dumps(v), 0)
                        ELSE NoFile]

NextConc ==
    \/ \E p \in Procs : SaveOpen(p)
    \/ \E p \in Procs : SaveLock(p)
    \/ \E p \in Procs, through \in BOOLEAN : SaveWrite(p, through)
    \/ \E p \in Procs : SaveUnlock(p)
    \/ \E p \in Procs : SaveClose(p)
    \/ \E p \in Procs : LoadOpen(p)
    \/ \E p \in Procs : LoadLock(p)
    \/ \E p \in Procs : LoadValid(p)
    \/ \E p \in Procs : LoadRemove(p)
    \/ \E p \in Procs : LoadRead(p)
    \/ \E p \in Procs : LoadReturn(p)
    \/ TickConc

SpecConc == InitConc /\ [][NextConc]_vars

\* the next statement of the operation of process p
ProcStep(p) ==
    \/ SaveOpen(p) \/ SaveLock(p)
    \/ \E through \in BOOLEAN : SaveWrite(p, through)
    \/ SaveUnlock(p) \/ SaveClose(p)
    \/ LoadOpen(p) \/ LoadLock(p) \/ LoadValid(p) \/ LoadRemove(p)
    \/ LoadRead(p) \/ LoadReturn(p)

\* No process is killed or stopped for ever: the operating system goes on
\* running each process, and a blocking flock (FileLock) returns once the
\* lock stays available.
SpecLive == SpecConc /\ \A p \in Procs : WF_vars(ProcStep(p))

\* what the file of the key may hold when the callers start: nothing (0: no
\* file), the bytes of a value, a stream cut short, the bytes of an instance
\* of a class outside the allow-list
InitialContents ==
    {pickle_dumps(v) : v \in Values}
    \cup {<<OpInt>>, pickle_dumps([cls |-> "B", state |-> 1])}

\* Processes sharing one entry, at least one of them calling Cacheable.get,
\* the others get, put or Cacheable.get on the same key.
InitCallers ==
    /\ backend = "CacheDirectory"
    /\ allowed = AllowList({"A"})
    /\ filters = <<>>
    /\ items = RtPurge
    /\ dir_exists = TRUE
    /\ dir_mode = OwnerOnly
    /\ files = [n \in Names |-> NoFile]
    /\ everPut = [k \in CacheKeys |-> FALSE]
    /\ last = NoCall
    /\ now = 0
    /\ job \in [Procs -> Jobs \cup CacheableJobs]
    /\ \E p \in Procs : job[p].op = "cacheable"
    /\ pc = [p \in Procs |-> "open"]
    /\ fd = [p \in Procs |-> 0]
    /\ hold = [p \in Procs |-> "none"]
    /\ buf = [p \in Procs |-> <<>>]
    /\ raw = [p \in Procs |-> <<>>]
    /\ out = [p \in Procs |-> Running]
    /\ NoDisplays
    /\ \/ dirent = 0 /\ inode = [i \in Inodes |-> NoFile]
       \/ \E d \in InitialContents :
             /\ dirent = 1
             /\ inode = [i \in Inodes |-> IF i = 1 THEN File(d, 0) ELSE NoFile]

SpecCallers == InitCallers /\ [][NextConc]_vars

\* Every process calls Cacheable.get once for the same key of a cache
\* directory that holds no file for it.
InitRace ==
    /\ InitCallers
    /\ dirent = 0
    /\ \A p \in Procs : job[p].op = "cacheable"

SpecRace == InitRace /\ [][NextConc]_vars

\* _save, line 112: file.write(value) raises OSError (disk full, I/O error):
\* the exception leaves the FileLock block, which releases the lock, and the
\* open block, which closes the file, and put raises it
SaveWriteFails(p) ==
    /\ AtSave(p, "write")
    /\ hold' = [hold EXCEPT ![p] = "none"]
    /\ fd' = [fd EXCEPT ![p] = 0]
    /\ pc' = [pc EXCEPT ![p] = "done"]
    /\ out' = [out EXCEPT ![p] =
                [Ended(Raised("OSError"), FALSE) EXCEPT !.inits = out[p].inits]]
    /\ UNCHANGED <<seqvars, progvars, now, job, dirent, inode, buf, raw>>

\* _load, line 129: file.read() raises OSError: the exception leaves both
\* blocks and the except clause (lines 131-137) logs it and raises
\* NoCachedValueException
LoadReadFails(p) ==
    LET e == LoadExcept(files, "OSError", "read")
    IN  /\ AtLoad(p, "read")
        /\ hold' = [hold EXCEPT ![p] = "none"]
        /\ fd' = [fd EXCEPT ![p] = 0]
        /\ IF job[p].op = "cacheable" THEN LoadFailed(p, e.res.kind)
           ELSE /\ pc' = [pc EXCEPT ![p] = "done"]
                /\ out' = [out EXCEPT ![p] = Ended(e.res, e.logged)]
        /\ UNCHANGED <<seqvars, progvars, now, job, dirent, inode, buf, raw>>

\* put and get of concurrent processes with I/O errors in write and read
NextFaults ==
    \/ NextConc
    \/ \E p \in Procs : SaveWriteFails(p)
    \/ \E p \in Procs : LoadReadFails(p)

SpecFaults == InitConc /\ [][NextFaults]_vars

\* CacheDirectory.purge run by a process, system call by system call.
\* shutil.rmtree (line 141) unlinks the entries of the directory it listed,
\* then removes the directory; _initialize_directory (line 144) makes it anew.
PurgeJob == [op |-> "purge", value |-> NoValue, max_age |-> NoAge]

\* the cache state a purge step leaves alone
PurgeKeeps == <<backend, allowed, filters, items, files, everPut, last>>

\* rmtree: the file of the key is unlinked (open files stay usable)
PurgeUnlink(p) ==
    /\ job[p].op = "purge" /\ pc[p] = "unlink"
    /\ dirent' = 0
    /\ pc' = [pc EXCEPT ![p] = "rmdir"]
    /\ UNCHANGED <<PurgeKeeps, progvars, dir_exists, dir_mode, now, job, inode, fd, hold,
                   buf, raw, out>>

\* rmtree: rmdir of the directory; it raises OSError when a file was created
\* in it meanwhile, and purge raises CacheException (lines 142-143)
PurgeRmdir(p) ==
    /\ job[p].op = "purge" /\ pc[p] = "rmdir"
    /\ IF dirent # 0
       THEN /\ pc' = [pc EXCEPT ![p] = "done"]
            /\ out' = [out EXCEPT ![p] = Ended(Raised("CacheException"), FALSE)]
            /\ UNCHANGED <<dir_exists, dir_mode>>
       ELSE /\ dir_exists' = FALSE
            /\ dir_mode' = 0
            /\ pc' = [pc EXCEPT ![p] = "makedirs"]
            /\ UNCHANGED out
    /\ UNCHANGED <<PurgeKeeps, progvars, now, job, dirent, inode, fd, hold, buf, raw>>

\* _initialize_directory: os.makedirs(self.path, mode=0o700, exist_ok=True)
PurgeMakedirs(p) ==
    /\ job[p].op = "purge" /\ pc[p] = "makedirs"
    /\ dir_exists' = TRUE
    /\ \E umask \in Umasks :
          dir_mode' = makedirs(dir_exists, dir_mode, OwnerOnly, umask)
    /\ pc' = [pc EXCEPT ![p] = "done"]
    /\ out' = [out EXCEPT ![p] = Ended(Returned(PyNone), FALSE)]
    /\ UNCHANGED <<PurgeKeeps, progvars, now, job, dirent, inode, fd, hold, buf, raw>>

\* One process purges the directory while the others run put or get.
InitPurge ==
    /\ backend = "CacheDirectory"
    /\ allowed = AllowList({"A"})
    /\ filters = <<>>
    /\ items = RtPurge
    /\ dir_exists = TRUE
    /\ dir_mode = OwnerOnly
    /\ files = [n \in Names |-> NoFile]
    /\ everPut = [k \in CacheKeys |-> FALSE]
    /\ last = NoCall
    /\ now = 0
    /\ job \in [Procs -> Jobs \cup {PurgeJob}]
    /\ \E p \in Procs :
          job[p] = PurgeJob /\ \A q \in Procs \ {p} : job[q] \in Jobs
    /\ pc = [p \in Procs |-> IF job[p] = PurgeJob THEN "unlink" ELSE "open"]
    /\ fd = [p \in Procs |-> 0]
    /\ hold = [p \in Procs |-> "none"]
    /\ buf = [p \in Procs |-> <<>>]
    /\ raw = [p \in Procs |-> <<>>]
    /\ out = [p \in Procs |-> Running]
    /\ NoDisplays
    /\ \E v \in Values \cup {NoValue} :
          /\ dirent = IF v = NoValue THEN 0 ELSE 1
          /\ inode = [i \in Inodes |->
                        IF i = 1 /\ v # NoValue THEN File(pickle_dumps(v), 0)
                        ELSE NoFile]

NextPurge ==
    \/ NextConc
    \/ \E p \in Procs : PurgeUnlink(p)
    \/ \E p \in Procs : PurgeRmdir(p)
    \/ \E p \in Procs : PurgeMakedirs(p)

SpecPurge == InitPurge /\ [][NextPurge]_vars

\* the cache object of Spec: no process of SpecConc runs
NoProcs ==
    /\ job = <<>> /\ pc = <<>> /\ fd = <<>> /\ hold = <<>>
    /\ buf = <<>> /\ raw = <<>> /\ out = <<>>
    /\ dirent = 0
    /\ inode = <<>>

InitCache ==
    /\ backend \in {"RuntimeCache", "CacheDirectory"}
    /\ allowed \in (IF backend = "RuntimeCache" THEN {NoAllowList}
                    ELSE {NoAllowList, AllowList({"A"})})
    /\ filters = <<>>
    /\ items = RtPurge
    /\ dir_exists = TRUE
    /\ dir_mode = OwnerOnly
    /\ files = [n \in Names |-> NoFile]
    /\ now = 0
    /\ everPut = [k \in CacheKeys |-> FALSE]
    /\ last = NoCall

Init == InitCache /\ NoProcs /\ NoDisplays

\* A cache with no filters registered, its calls following each other within
\* one clock tick, any system call of the directory backend failing.
Next ==
    \/ \E k \in CacheKeys, v \in Values, f \in PutFails : Put(k, v, f)
    \/ \E k \in CacheKeys, m \in MaxAges, f \in GetFails : Get(k, m, f)
    \/ \E k \in CacheKeys, v \in Values, m \in MaxAges, f \in CacheableFails :
          CacheableGet(k, v, m, f[1], f[2])
    \/ \E f \in PurgeFails : Purge(f)

Spec == Init /\ [][Next]_vars

\* A cache with no filters registered while time passes; no failure is
\* injected.
NextTime ==
    \/ \E k \in CacheKeys, v \in Values : Put(k, v, "none")
    \/ \E k \in CacheKeys, m \in MaxAges : Get(k, m, "none")
    \/ \E k \in CacheKeys, v \in Values, m \in MaxAges :
          CacheableGet(k, v, m, "none", "none")
    \/ Tick

SpecTime == Init /\ [][NextTime]_vars

\* A cache whose callers register filters at any time; no failure is
\* injected and no max_age is given.
NextFilters ==
    \/ \E f \in FilterIds : AddFilter(f)
    \/ \E k \in CacheKeys, v \in Values : Put(k, v, "none")
    \/ \E k \in CacheKeys : Get(k, NoAge, "none")
    \/ \E k \in CacheKeys, v \in Values : CacheableGet(k, v, NoAge, "none", "none")

SpecFilters == Init /\ [][NextFilters]_vars

\* the record of no call yet: CacheDirectory(path) has not been called
Unconstructed == [NoCall EXCEPT !.op = "none"]

\* the cache object exists: its construction returned
Constructed ==
    last.op # "none" /\ ~(last.op = "new" /\ last.res.kind # "return")

\* CacheDirectory.__init__ (lines 82-86) calls _initialize_directory (lines
\* 88-94): os.makedirs(path, mode=0o700, exist_ok=True), an OSError of which
\* (fail: no permission in the parent, a regular file in the way) is raised
\* as CacheException
Construct(fail, umask) ==
    /\ last.op = "none"
    /\ fail \in {"none", "makedirs"}
    /\ fail = "makedirs" => ~dir_exists
    /\ IF fail = "makedirs"
       THEN /\ last' = [NoCall EXCEPT !.res = Raised("CacheException"),
                                      !.failed = "makedirs"]
            /\ UNCHANGED <<dir_exists, dir_mode>>
       ELSE /\ dir_exists' = TRUE
            /\ dir_mode' = makedirs(dir_exists, dir_mode, OwnerOnly, umask)
            /\ last' = NoCall
    /\ UNCHANGED <<backend, allowed, filters, items, files, everPut, now, concvars, progvars>>

\* Before construction the path is free or holds a directory of any mode,
\* left by an earlier run or made by someone else.
InitDir ==
    /\ backend = "CacheDirectory"
    /\ allowed = NoAllowList
    /\ filters = <<>>
    /\ items = RtPurge
    /\ dir_exists \in BOOLEAN
    /\ dir_mode \in (IF dir_exists THEN DirModes ELSE {0})
    /\ files = [n \in Names |-> NoFile]
    /\ now = 0
    /\ everPut = [k \in CacheKeys |-> FALSE]
    /\ last = Unconstructed
    /\ NoProcs
    /\ NoDisplays

\* the cache is constructed, then used and purged
NextDir ==
    \/ \E f \in {"none", "makedirs"}, u \in Umasks : Construct(f, u)
    \/ \E k \in CacheKeys, v \in Values : Constructed /\ Put(k, v, "none")
    \/ \E k \in CacheKeys : Constructed /\ Get(k, NoAge, "none")
    \/ \E f \in PurgeFails : Constructed /\ Purge(f)

SpecDir == InitDir /\ [][NextDir]_vars

\* An object of the base class Cache, whose _save and _load raise
\* NotImplementedError (lines 36-40), used as the cache of a Cacheable.
InitBase ==
    /\ backend = "Cache"
    /\ allowed = NoAllowList
    /\ filters = <<>>
    /\ items = RtPurge
    /\ dir_exists = FALSE
    /\ dir_mode = 0
    /\ files = [n \in Names |-> NoFile]
    /\ now = 0
    /\ everPut = [k \in CacheKeys |-> FALSE]
    /\ last = NoCall
    /\ NoProcs
    /\ NoDisplays

NextBase ==
    \/ \E f \in FilterIds : AddFilter(f)
    \/ \E k \in CacheKeys, v \in Values : Put(k, v, "none")
    \/ \E k \in CacheKeys, m \in MaxAges : Get(k, m, "none")
    \/ \E k \in CacheKeys, v \in Values, m \in MaxAges :
          CacheableGet(k, v, m, "none", "none")
    \/ Tick

SpecBase == InitBase /\ [][NextBase]_vars

\* _get_path as a function: each process computes the path of its key.
\* Keys are strings over "/", ".", BEL and e-acute, the empty string included.
KeyChars == {47, 46, 7, 233}

PathKeys == UNION {[1..n -> KeyChars] : n \in 0..MaxKeyLen}

GetPath(p) ==
    /\ job[p].op = "get_path" /\ pc[p] = "start"
    /\ pc' = [pc EXCEPT ![p] = "done"]
    /\ out' = [out EXCEPT ![p] =
                Ended(Returned(os_path_join(CachePath, get_path(job[p].key))),
                      FALSE)]
    /\ UNCHANGED <<seqvars, progvars, now, job, dirent, inode, fd, hold, buf, raw>>

InitPath ==
    /\ backend = "CacheDirectory"
    /\ allowed = NoAllowList
    /\ filters = <<>>
    /\ items = RtPurge
    /\ dir_exists = TRUE
    /\ dir_mode = OwnerOnly
    /\ files = [n \in Names |-> NoFile]
    /\ everPut = [k \in CacheKeys |-> FALSE]
    /\ last = NoCall
    /\ now = 0
    /\ job \in [Procs -> [op : {"get_path"}, key : PathKeys]]
    /\ pc = [p \in Procs |-> "start"]
    /\ fd = [p \in Procs |-> 0]
    /\ hold = [p \in Procs |-> "none"]
    /\ buf = [p \in Procs |-> <<>>]
    /\ raw = [p \in Procs |-> <<>>]
    /\ out = [p \in Procs |-> Running]
    /\ NoDisplays
    /\ dirent = 0
    /\ inode = [i \in Inodes |-> NoFile]

NextPath == \E p \in Procs : GetPath(p)

SpecPath == InitPath /\ [][NextPath]_vars

\* ------------------------------------------ cli/scan/progress.py registry
\* list.remove(x): the list without the first item equal to x
list_remove(xs, x) ==
    LET i == CHOOSE k \in 1..Len(xs) :
                 xs[k] = x /\ \A j \in 1..(k - 1) : xs[j] # x
    IN  SubSeq(xs, 1, i - 1) \o SubSeq(xs, i + 1, Len(xs))

Items(xs) == {xs[k] : k \in 1..Len(xs)}

\* ProgressDisplay.end (lines 557-559) of display d: curses.endwin(), then
\* _displays.remove(self), which raises ValueError when d is not in the list
display_end(st, d) ==
    [displays |-> IF d \in Items(st.displays) THEN list_remove(st.displays, d)
                  ELSE st.displays,
     ended |-> [st.ended EXCEPT ![d] = @ + 1],
     raised |-> d \notin Items(st.displays)]

\* reset_terminal (lines 34-36): for display in _displays: display.end().
\* The list iterator keeps an index into the list and stops when the index
\* reaches the length the list has by then (i is the index, from 1).
RECURSIVE reset_loop(_, _)
reset_loop(st, i) ==
    IF i > Len(st.displays) \/ st.raised THEN st
    ELSE reset_loop(display_end(st, st.displays[i]), i + 1)

\* ProgressDisplay.__init__ (lines 509-514) of a new object d
NewDisplay(d) ==
    /\ d \notin made
    /\ displays' = Append(displays, d)
    /\ made' = made \cup {d}
    /\ UNCHANGED <<ended, reset, seqvars, now, concvars>>

\* the owner of display d ends it (end_on_input, line 555)
End(d) ==
    /\ d \in made /\ ended[d] = 0
    /\ LET st == display_end([displays |-> displays, ended |-> ended,
                              raised |-> FALSE], d)
       IN  displays' = st.displays /\ ended' = st.ended
    /\ UNCHANGED <<made, reset, seqvars, now, concvars>>

\* reset_terminal() is called (lines 663, 692: a rendering step failed)
ResetTerminal ==
    /\ LET st == reset_loop([displays |-> displays, ended |-> ended,
                             raised |-> FALSE], 1)
       IN  /\ displays' = st.displays
           /\ ended' = st.ended
           /\ reset' = [done |-> TRUE, before |-> displays, after |-> st.displays,
                        calls |-> [d \in Displays |-> st.ended[d] - ended[d]]]
    /\ UNCHANGED <<made, seqvars, now, concvars>>

InitProgress == Init /\ backend = "RuntimeCache"

NextProgress ==
    \/ \E d \in Displays : NewDisplay(d)
    \/ \E d \in Displays : End(d)
    \/ ResetTerminal

SpecProgress == InitProgress /\ [][NextProgress]_vars

\* ------------------------------------------------------------------ claims
Miss == Raised("NoCachedValueException")

\* A value the cache gives back as a value: RuntimeCache keeps the value
\* itself; CacheDirectory reconstructs primitives and allow-listed classes.
Reconstructable(v) ==
    \/ backend = "RuntimeCache"
    \/ Primitive(v)
    \/ v.cls \in AllowedClasses(allowed)

\* the call was made with an injected system-call failure
Faulted == last.failed \notin {"none", "missing"}

\* the entry stored for key holds value v
EntryHolds(key, v) ==
    IF backend = "RuntimeCache" THEN items[key] = v
    ELSE files[PathOf[key]].exists /\ files[PathOf[key]].data = pickle_dumps(v)

\* C1 (Spec): a get(K) that directly follows a successful put(K, V), with no
\* max_age, no filter registered and no failing system call, returns V, for
\* every key and every value the cache can reconstruct, on both backends.
RoundTrip ==
    (/\ last.op = "get" /\ last.afterOp = "put"
     /\ last.max_age = NoAge /\ ~Faulted
     /\ Reconstructable(last.after))
    => last.res = Returned(last.after)

RoundTripWitness ==
    /\ backend = "CacheDirectory"
    /\ last.op = "get" /\ last.afterOp = "put" /\ last.max_age = NoAge
    /\ last.after = ObjA
    /\ last.res = Returned(ObjA)

\* the serialized forms of the values processes store
StoredForms == {pickle_dumps(v) : v \in Values}

\* C2 (SpecConc): when every process ran CacheDirectory.put on the same key
\* and all of them have finished, the file of the key holds exactly the bytes
\* of one of the values put, whatever the interleaving and the lengths.
ConcurrentWritersLeaveOneValue ==
    (\A p \in Procs : job[p].op = "put" /\ pc[p] = "done")
    => /\ dirent # 0
       /\ inode[dirent].data \in {pickle_dumps(job[p].value) : p \in Procs}

\* C3 (SpecConc): the bytes a get reads under its shared lock are the complete
\* bytes of a value that a put stored, also while another process runs put.
NoTornRead ==
    \A p \in Procs :
        (job[p].op = "get" /\ raw[p] # <<>>) => raw[p][1] \in StoredForms

\* C4 (SpecTime): after CacheDirectory.put(K, V) at time T, a get(K, max_age=D)
\* later than T+D signals Miss and the file is gone afterwards; one earlier
\* than T+D returns V and the file is still there.
TTLExpiry ==
    (/\ backend = "CacheDirectory"
     /\ last.op = "get" /\ last.afterOp = "put" /\ last.max_age # NoAge
     /\ Reconstructable(last.after))
    => /\ last.age > last.max_age =>
            last.res = Miss /\ ~files[PathOf[last.key]].exists
       /\ last.age < last.max_age =>
            last.res = Returned(last.after) /\ EntryHolds(last.key, last.after)

TTLExpiryWitness ==
    /\ backend = "CacheDirectory"
    /\ last.op = "get" /\ last.afterOp = "put"
    /\ last.max_age = 1 /\ last.age = 2
    /\ last.res = Miss /\ ~files[PathOf[last.key]].exists

\* the other half of C4's case: the entry is younger than max_age
TTLFreshWitness ==
    /\ backend = "CacheDirectory"
    /\ last.op = "get" /\ last.afterOp = "put"
    /\ last.max_age = 1 /\ last.age = 0
    /\ last.res = Returned(last.after) /\ EntryHolds(last.key, last.after)

\* C5 (Spec): a Cacheable.get that finds no entry for its key runs the
\* initializer exactly once, stores its value under the key and returns it; a
\* Cacheable.get directly after it (entry present, not expired) runs the
\* initializer zero times and returns the stored value.
GetOrCompute ==
    /\ (last.op = "cacheable" /\ ~last.had /\ ~Faulted)
       => /\ last.inits = 1
          /\ last.res = Returned(last.arg)
          /\ EntryHolds(last.key, last.arg)
    /\ (/\ last.op = "cacheable" /\ last.afterOp = "cacheable" /\ ~Faulted
        /\ last.max_age = NoAge \/ last.age < last.max_age
        /\ Reconstructable(last.after))
       => /\ last.inits = 0
          /\ last.res = Returned(last.after)

GetOrComputeWitness ==
    /\ backend = "CacheDirectory"
    /\ last.op = "cacheable" /\ last.afterOp = "cacheable"
    /\ last.max_age = 1 /\ last.had
    /\ last.inits = 0 /\ last.res = Returned(last.after)

\* C6 (Spec): when Cacheable.get misses, the initializer returns V and
\* cache.put then fails with a storage error, Cacheable.get still returns V.
PersistFailureKeepsValue ==
    (last.op = "cacheable" /\ last.failed = "put")
    => last.res = Returned(last.arg)

\* C7 (SpecFilters): the value a Cacheable.get returns when it hits the entry
\* equals the value the Cacheable.get right before it returned when it missed
\* and computed that entry, whatever filters are registered.
CachedEqualsFresh ==
    (/\ last.op = "cacheable" /\ last.afterOp = "cacheable"
     /\ last.inits = 0 /\ last.res.kind = "return")
    => last.res.value = last.after

\* C8 (Spec): a CacheDirectory.put that cannot store the value raises a
\* CacheException: it neither returns normally nor raises another error type.
StorageErrorIsCacheException ==
    (last.op = "put" /\ last.failed # "none")
    => IsCacheException(last.res.kind)

\* C9 (Spec): CacheDirectory.get on a missing file signals Miss without
\* logging; on any other failure of open, lock, stat, remove or read it logs a
\* warning and signals Miss; no OSError leaves get.
ReadFailureIsMiss ==
    (backend = "CacheDirectory" /\ last.op = "get")
    => /\ ~last.had => last.res = Miss /\ ~last.logged
       /\ last.failed \in GetFails \ {"none"} => last.res = Miss /\ last.logged
       /\ ~IsOSError(last.res.kind)

ReadFailureIsMissWitness ==
    /\ backend = "CacheDirectory"
    /\ last.op = "get" /\ last.had /\ last.failed = "remove"
    /\ last.res = Miss /\ last.logged

\* C10 (Spec): get(K) signals Miss when put(K, .) was never called since the
\* cache was created or last purged, whatever is stored under other keys.
MissOnAbsence ==
    (last.op = "get" /\ ~last.known) => last.res = Miss

MissOnAbsenceWitness ==
    /\ backend = "CacheDirectory"
    /\ last.op = "get" /\ ~last.known /\ last.res = Miss
    /\ \E k \in CacheKeys \ {last.key} : everPut[k] /\ HasEntry(Store, k)

\* C11 (Spec): after purge() has returned, on both backends, get(K) signals
\* Miss for every key, and put(K, V) followed by get(K) succeeds and returns V,
\* as on a newly created cache (no filter registered).
PurgeIsolation ==
    (last.op = "purge" /\ last.res.kind = "return")
    => /\ \A k \in CacheKeys, m \in MaxAges :
              CacheGet(Store, k, m, "none").res = Miss
       /\ \A k \in CacheKeys, v \in Values :
              LET p == CachePut(Store, k, v, "none")
              IN  /\ p.res = Returned(PyNone)
                  /\ Reconstructable(v) =>
                        CacheGet(p.store, k, NoAge, "none").res = Returned(v)

PurgeIsolationWitness ==
    /\ backend = "CacheDirectory"
    /\ last.op = "purge" /\ last.res.kind = "return" /\ last.had
    /\ \A k \in CacheKeys : CacheGet(Store, k, NoAge, "none").res = Miss

Invalid == Raised("InvalidCachedValueException")

\* bytes that are structurally malformed: the stream never stops
Malformed(data) == \A i \in 1..Len(data) : data[i] # OpStop

\* bytes that name a class outside the allow-list of the cache
Disallowed(data) ==
    /\ Len(data) >= 2 /\ data[1] = OpGlobal
    /\ ByteClass(data[2]) \notin AllowedClasses(allowed)

\* C12 (Spec): when the file of K holds bytes that are malformed or name a
\* class outside the allow-list, get(K) (entry not expired) signals Invalid
\* and returns no value, and Cacheable.get for K runs the initializer, stores
\* its value over the entry and returns it.
AllowListEnforcement ==
    /\ \A k \in CacheKeys :
          LET f == files[PathOf[k]]
          IN  (/\ backend = "CacheDirectory" /\ dir_exists /\ f.exists
               /\ Malformed(f.data) \/ Disallowed(f.data))
              => /\ \A m \in MaxAges :
                        is_valid(f.mtime, now, m)
                        => CacheGet(Store, k, m, "none").res = Invalid
                 /\ \A m \in MaxAges, v \in Values :
                        LET c == CacheableGetCall(Store, k, v, m, "none", "none")
                        IN  /\ c.inits = 1
                            /\ c.res = Returned(v)
                            /\ c.store.files[PathOf[k]].data = pickle_dumps(v)
    /\ (/\ backend = "CacheDirectory" /\ last.afterOp = "put" /\ ~Faulted
        /\ ~Reconstructable(last.after))
       => /\ (last.op = "get" /\ last.max_age = NoAge) => last.res = Invalid
          /\ last.op = "cacheable"
             => /\ last.inits = 1
                /\ last.res = Returned(last.arg)
                /\ EntryHolds(last.key, last.arg)

AllowListEnforcementWitness ==
    /\ backend = "CacheDirectory" /\ ~allowed.given
    /\ last.op = "cacheable" /\ last.afterOp = "put" /\ last.after = ObjA
    /\ last.max_age = NoAge
    /\ last.inits = 1 /\ last.res = Returned(Int1) /\ EntryHolds(last.key, Int1)

\* the other cases of C12: a plain get of a disallowed class, a malformed file
AllowListGetWitness ==
    /\ backend = "CacheDirectory"
    /\ last.op = "get" /\ last.afterOp = "put" /\ last.after = ObjA
    /\ last.res = Invalid

AllowListMalformedWitness ==
    /\ backend = "CacheDirectory"
    /\ last.op = "get" /\ last.had /\ last.res = Invalid
    /\ Malformed(files[PathOf[last.key]].data)

\* the deserialized stored value of key (NoValue: none that deserializes)
RawValue(key) ==
    IF backend = "RuntimeCache" THEN items[key]
    ELSE IF ~HasEntry(Store, key) THEN NoValue
    ELSE LET de == limited_deserialize(files[PathOf[key]].data, allowed)
         IN  IF de.kind = "return" THEN de.value ELSE NoValue

\* Fn(...F2(F1(v))) for the filters F1, ..., Fn
RECURSIVE Composed(_, _)
Composed(fs, v) ==
    IF fs = <<>> THEN v
    ELSE ApplyFilter(fs[Len(fs)], Composed(SubSeq(fs, 1, Len(fs) - 1), v))

\* C13 (SpecFilters): with filters F1, F2 registered in this order, get(K)
\* returns F2(F1(raw)) for the deserialized stored value raw; put stores the
\* value it is given, unfiltered; get leaves the stored representation as it
\* is, so that every later get(K) returns F2(F1(raw)) again.
FilterOrder ==
    /\ \A k \in CacheKeys :
          RawValue(k) # NoValue
          => LET g == CacheGet(Store, k, NoAge, "none")
             IN  /\ g.res = Returned(Composed(filters, RawValue(k)))
                 /\ g.store = Store
                 /\ CacheGet(g.store, k, NoAge, "none").res = g.res
    /\ last.op = "put" => EntryHolds(last.key, last.arg)
    /\ (last.op = "get" /\ last.res.kind = "return")
       => \E n \in 0..Len(filters) :
              last.res.value = Composed(SubSeq(filters, 1, n), RawValue(last.key))

\* get returned FUnbox(FBox(A instance)) = 1, not FBox(FUnbox(A instance))
FilterOrderWitness ==
    /\ filters = <<"FBox", "FUnbox">>
    /\ last.op = "get" /\ last.afterOp = "put" /\ last.after = ObjA
    /\ last.res = Returned(Int1)
    /\ EntryHolds(last.key, ObjA)

\* the outcomes of cache.get that Cacheable.get handles itself
Handled(res) ==
    res.kind \in {"return", "NoCachedValueException", "InvalidCachedValueException"}

\* C14 (SpecBase): when cache.get raises an error that is neither Miss nor
\* Invalid, Cacheable.get raises that error, does not run the initializer and
\* does not call cache.put.
StructuralFailurePropagates ==
    /\ \A k \in CacheKeys, v \in Values, m \in MaxAges :
          LET g == CacheGet(Store, k, m, "none")
              c == CacheableGetCall(Store, k, v, m, "none", "none")
          IN  ~Handled(g.res)
              => /\ c.res = g.res
                 /\ c.inits = 0
                 /\ ~c.putcalled
                 /\ c.store = Store
    /\ (last.op = "cacheable" /\ ~Handled(last.res) /\ last.failed # "put")
       => /\ last.inits = 0
          /\ last.arg = NoValue
          /\ ~everPut[last.key] \/ last.known

StructuralFailurePropagatesWitness ==
    /\ backend = "Cache"
    /\ last.op = "cacheable" /\ last.res = Raised("NotImplementedError")
    /\ last.inits = 0 /\ ~everPut[last.key]

\* C15 (SpecCallers): whatever the entry holds (nothing, an expired, cut
\* short or disallowed value) and however the steps of other processes' get,
\* put and Cacheable.get on the same key interleave, Cacheable.get never
\* raises NoCachedValueException or InvalidCachedValueException.
MissNeverEscapes ==
    /\ \A p \in DOMAIN job :
          job[p].op = "cacheable"
          => out[p].kind \notin {"NoCachedValueException",
                                 "InvalidCachedValueException"}
    /\ last.op = "cacheable"
       => last.res.kind \notin {"NoCachedValueException",
                                "InvalidCachedValueException"}

\* a Cacheable.get found a disallowed or cut-short entry, or none, computed
\* its value and returned it while another process wrote the same entry
MissNeverEscapesWitness ==
    \E p \in Procs, q \in Procs :
        /\ p # q
        /\ job[p].op = "cacheable" /\ job[q].op = "put"
        /\ pc[p] = "done" /\ pc[q] = "done"
        /\ out[p].inits = 1 /\ out[p].kind = "return"
        /\ out[p].value = job[p].value

\* C16 (SpecTime): CacheDirectory.get(K) without max_age returns the stored
\* value of an existing entry whatever its age and leaves the file in place;
\* RuntimeCache.get(K, max_age) returns the stored value for every max_age,
\* 0 included, once K was put.
NoMaxAgeNeverStale ==
    /\ (/\ backend = "CacheDirectory"
        /\ last.op = "get" /\ last.max_age = NoAge /\ last.had)
       => /\ HasEntry(Store, last.key)
          /\ RawValue(last.key) # NoValue
             => last.res = Returned(RawValue(last.key))
          /\ (last.afterOp = "put" /\ Reconstructable(last.after))
             => last.res = Returned(last.after)
    /\ (backend = "RuntimeCache" /\ last.op = "get" /\ last.known)
       => /\ last.res = Returned(items[last.key])
          /\ last.afterOp = "put" => last.res = Returned(last.after)

NoMaxAgeNeverStaleWitness ==
    /\ backend = "CacheDirectory"
    /\ last.op = "get" /\ last.max_age = NoAge
    /\ last.afterOp = "put" /\ last.age = MaxTime
    /\ last.res = Returned(last.after) /\ EntryHolds(last.key, last.after)

\* the other half of C16: RuntimeCache with max_age 0
RuntimeIgnoresMaxAgeWitness ==
    /\ backend = "RuntimeCache"
    /\ last.op = "get" /\ last.max_age = 0 /\ last.afterOp = "put"
    /\ last.res = Returned(last.after)

\* path names one file directly inside the cache directory: the directory, a
\* separator and one non-empty name without separator or NUL that is not "."
\* or ".."
FileInCacheDir(path) ==
    LET n == Len(CachePath) + 1
        name == SubSeq(path, n + 1, Len(path))
    IN  /\ Len(path) > n
        /\ SubSeq(path, 1, n) = CachePath \o <<47>>
        /\ \A i \in 1..Len(name) : name[i] \notin {47, 0}
        /\ name \notin {<<46>>, <<46, 46>>}

\* the paths of different keys differ, those of equal keys are equal
PathsInjective ==
    \A p \in Procs, q \in Procs :
        (pc[p] = "done" /\ pc[q] = "done" /\ job[p].op = "get_path"
         /\ job[q].op = "get_path")
        => (job[p].key = job[q].key <=> out[p].value = out[q].value)

\* C17 (SpecPath): _get_path maps equal keys to equal paths, different keys
\* to different paths, and every key to one file name directly inside the
\* cache directory.
KeyToPath ==
    /\ PathsInjective
    /\ \A p \in Procs :
          (job[p].op = "get_path" /\ pc[p] = "done")
          => FileInCacheDir(out[p].value)

\* the same for keys that are not the empty string
NonEmptyKeyToPath ==
    /\ PathsInjective
    /\ \A p \in Procs :
          (job[p].op = "get_path" /\ pc[p] = "done" /\ job[p].key # <<>>)
          => FileInCacheDir(out[p].value)

\* C18 (SpecTime): CacheDirectory.get(K, max_age) on an existing readable
\* entry signals Miss exactly when the entry is older than max_age: an entry
\* whose age equals max_age is returned.
StalenessBoundary ==
    (/\ backend = "CacheDirectory"
     /\ last.op = "get" /\ last.afterOp = "put" /\ last.max_age # NoAge
     /\ Reconstructable(last.after))
    => /\ last.res = Miss <=> last.age > last.max_age
       /\ last.age <= last.max_age => last.res = Returned(last.after)

\* what _is_valid does at the boundary: an entry as old as max_age is stale
StaleFromMaxAgeOn ==
    (/\ backend = "CacheDirectory"
     /\ last.op = "get" /\ last.afterOp = "put" /\ last.max_age # NoAge
     /\ Reconstructable(last.after))
    => /\ last.res = Miss <=> last.age >= last.max_age
       /\ last.age < last.max_age => last.res = Returned(last.after)

\* C19 (SpecConc): while one process runs CacheDirectory.get(K, max_age) and
\* another put(K, V), the reader deletes the file of K only when the entry
\* under that path is stale at that moment: its deletion of a stale entry
\* neither removes nor orphans the file the concurrent put opened, so that
\* the entry holds V once both have finished.
PutSurvivesReader ==
    [][\A p \in Procs :
          (/\ job[p].op = "get" /\ pc[p] = "remove" /\ pc'[p] = "done"
           /\ \E q \in Procs : job[q].op = "put"
           /\ dirent # 0)
          => ~is_valid(inode[dirent].mtime, now, job[p].max_age)]_vars

\* the values the callers' initializers return
Computed == {job[p].value : p \in Procs}

\* the value the entry of the key holds: what deserializing its file gives
EntryValue ==
    IF dirent = 0 THEN Raised("NoCachedValueException")
    ELSE limited_deserialize(inode[dirent].data, allowed)

\* each call runs its initializer at most once and returns the value it
\* computed or a value another call computed and stored
CallersReturnComputed ==
    \A p \in Procs :
        /\ out[p].inits <= 1
        /\ pc[p] = "done"
           => /\ out[p].kind = "return"
              /\ out[p].value \in Computed
              /\ out[p].inits = 1 => out[p].value = job[p].value
              /\ out[p].inits = 0
                 => \E q \in Procs \ {p} :
                       out[p].value = job[q].value /\ out[q].inits = 1

AllComputeWitness ==
    /\ \A r \in Procs : pc[r] = "done" /\ out[r].inits = 1
    /\ \E p \in Procs, q \in Procs : job[p].value # job[q].value
    /\ EntryValue.kind = "return" /\ EntryValue.value \in Computed

\* Byte for byte the file need not be the serialized form of one value: the
\* bytes of a shorter value may be followed by the tail of a longer one
\* written before it (this formula does not hold, for the reason of C2).
EntryBytesExact ==
    (\A p \in Procs : pc[p] = "done")
    => dirent # 0 /\ inode[dirent].data \in {pickle_dumps(v) : v \in Computed}

\* C21 (SpecConc): when two processes run CacheDirectory.get(K, max_age) on
\* the same expired entry, the one whose os.remove finds the file gone
\* signals Miss without a warning, and once both have finished both have
\* signalled Miss, none has logged and the entry is gone.
StaleReadersBenign ==
    [][\A p \in Procs :
          /\ (/\ job[p].op = "get" /\ pc[p] = "remove" /\ dirent = 0
              /\ pc'[p] = "done")
             => /\ out'[p].kind = "NoCachedValueException"
                /\ ~out'[p].logged
                /\ dirent' = 0
          /\ (\A q \in Procs :
                 job[q].op = "get" /\ job[q].max_age = 0 /\ pc'[q] = "done")
             => /\ dirent' = 0
                /\ \A q \in Procs :
                      out'[q].kind = "NoCachedValueException" /\ ~out'[q].logged
      ]_vars

\* one reader has deleted the expired entry and signalled Miss, another has
\* found it expired too and is about to delete it
StaleReadersBenignWitness ==
    \E p \in Procs, q \in Procs :
        /\ p # q
        /\ job[p].op = "get" /\ job[q].op = "get"
        /\ pc[p] = "done" /\ out[p].kind = "NoCachedValueException"
        /\ pc[q] = "remove" /\ hold[q] = "SH"
        /\ dirent = 0 /\ inode[1].exists

\* C22 (SpecPurge): while a process runs CacheDirectory.purge, no put or get
\* of another process finds the cache directory absent: the directory exists
\* in every state, and a concurrent put returns normally (its value stored in
\* the recreated directory or removed by the purge), never failing because
\* the directory is missing.
PurgeAtomic ==
    /\ \A p \in Procs :
          (job[p].op = "put" /\ pc[p] = "done") => out[p].kind = "return"
    /\ (\E p \in Procs : job[p].op \in {"put", "get"} /\ pc[p] = "open")
       => dir_exists

\* the put half of C22 alone: a put that ran beside a purge returned normally
PutBesidePurgeReturns ==
    \A p \in Procs :
        (job[p].op = "put" /\ pc[p] = "done") => out[p].kind = "return"

\* the statements of the guarded block of the operation of process p
InBlock(p) ==
    IF job[p].op = "put" THEN pc[p] \in {"write", "unlock"} /\ hold[p] = "EX"
    ELSE pc[p] \in {"valid", "remove", "read", "unlock"} /\ hold[p] = "SH"

\* C23 (SpecFaults): locks are scoped to the guarded block: a process whose
\* put or get has finished (return, Miss for a stale or missing entry,
\* exception in write, stat, delete or read) holds no lock and no open file,
\* and a process holds a lock only while it is inside the guarded write or
\* read block, on the file it has open.
LocksScoped ==
    \A p \in Procs :
        /\ pc[p] = "done" => (hold[p] = "none" /\ fd[p] = 0)
        /\ hold[p] # "none" => (InBlock(p) /\ fd[p] # 0)

\* a put ended by an exception of write, a get by one of read, and a get by
\* the removal of a stale entry, each after its lock was taken
LocksScopedWitness ==
    \E p, q \in Procs :
        /\ pc[p] = "done" /\ job[p].op = "put" /\ out[p].kind = "OSError"
        /\ pc[q] = "done" /\ job[q].op = "get"
        /\ out[q].kind = "NoCachedValueException" /\ out[q].logged

LocksScopedStaleWitness ==
    \E p \in Procs :
        /\ pc[p] = "done" /\ job[p].op = "get" /\ dirent = 0
        /\ out[p].kind = "NoCachedValueException" /\ ~out[p].logged
        /\ inode[1].exists /\ job[p].max_age # NoAge

\* process p waits: its next statement cannot run now
Waiting(p) == pc[p] # "done" /\ ~ENABLED ProcStep(p)

\* a waiting process waits for the lock of the file of its key and for
\* nothing else, and holds no lock while it waits
WaitsForOwnLockOnly ==
    \A p \in Procs :
        Waiting(p) => /\ pc[p] = "lock"
                      /\ hold[p] = "none"
                      /\ \E q \in Procs \ {p} : hold[q] # "none" /\ fd[q] = fd[p]

\* C24 (SpecLive): no deadlock among cache operations: when every process
\* keeps being run and none dies holding a lock, every put and every get
\* eventually completes, and an operation never waits for anything but the
\* single lock of the file of its own key.
NoDeadlock ==
    /\ [](WaitsForOwnLockOnly)
    /\ <>(\A p \in Procs : pc[p] = "done")

\* a put waits for the lock a reader holds on the file of the key
NoDeadlockWitness ==
    \E p, q \in Procs :
        /\ job[p].op = "put" /\ Waiting(p)
        /\ job[q].op = "get" /\ hold[q] = "SH" /\ fd[q] = fd[p]

\* the preceding call was the construction or a purge of the directory cache
DirectoryCall == last.op \in {"new", "purge"}

\* C25 (SpecDir): owner-only directory or fatal failure: after the
\* construction of a CacheDirectory or its purge returned, the cache
\* directory exists with mode 0700, whatever was at the path before; when
\* the directory could not be created the call raised CacheException.
OwnerOnlyOrFatal ==
    DirectoryCall =>
        /\ last.res.kind = "return" => (dir_exists /\ dir_mode = OwnerOnly)
        /\ (last.failed = "makedirs" \/ ~dir_exists)
              => last.res.kind = "CacheException"

\* the half of C25 about purge: a purge that returned left a directory of
\* mode 0700
PurgeLeavesOwnerOnly ==
    (last.op = "purge" /\ last.res.kind = "return")
        => (dir_exists /\ dir_mode = OwnerOnly)

\* the half of C25 about failure: construction and purge never return
\* without a directory
DirectoryFailureIsFatal ==
    (DirectoryCall /\ (last.failed = "makedirs" \/ ~dir_exists))
        => last.res.kind = "CacheException"

\* display d is live: constructed and not ended
Live(d) == d \in made /\ ended[d] = 0

\* C26 (SpecProgress): reset_terminal ends every live display: a call of
\* reset_terminal() calls end() exactly once on each display that was in the
\* registry and leaves the registry empty; and every display is in the
\* registry from its construction until its end().
ResetEndsEveryDisplay ==
    /\ reset.done =>
          /\ \A d \in Displays :
                reset.calls[d] = IF d \in Items(reset.before) THEN 1 ELSE 0
          /\ reset.after = <<>>
    /\ \A d \in Displays : Live(d) <=> d \in Items(displays)

\* the half of C26 about the registry: it holds the live displays
RegistryHoldsLive == \A d \in Displays : Live(d) <=> d \in Items(displays)

\* what reset_terminal does: it ends the displays at the odd positions of
\* the registry and leaves the others registered
ResetEndsEveryOther ==
    reset.done =>
        /\ \A k \in 1..Len(reset.before) :
              reset.calls[reset.before[k]] = k % 2
        /\ Len(reset.after) = Len(reset.before) \div 2

====
